---- MODULE Spec2Model ----
(***************************************************************************)
(* Leaky-splits indexes (fiftyone/brain/internal/core/leaky_splits.py) and *)
(* compute_uniqueness (fiftyone/brain/uniqueness.py).                      *)
(*                                                                         *)
(* Python values are modelled as follows.  None is the empty tuple and any *)
(* other optional value v is the one-element tuple <<v>>.  A list is a     *)
(* sequence.  A view is either a lazy filter (a record naming the filter)  *)
(* or, for select(), the sequence of sample ids it yields.  Samples are    *)
(* identified by their position 1..NumSamples in the collection, which is  *)
(* also the order iter_samples() yields them in.                           *)
(***************************************************************************)
EXTENDS Integers, Sequences, FiniteSets, TLC

\* ---------------------------------------------------------------- bounds
NumSamples == 4
NumHashes == 2
MaxTags == 2
MaxViews == 2
MaxThreshold == 2
MaxEmb == 6
MaxPipelineRuns == 3
MaxTagCalls == 2
MaxUSamples == 5
MaxUEmb == 1

\* ------------------------------------------------------ program constants
DefaultLeakThreshold == 1
K == 3

Ids == 1..NumSamples
SplitValues == <<"test", "train">>
SplitNames == {"train", "test"}
LeakTagArgs == {"leak"}

None == <<>>
Some(v) == <<v>>
IsNone(o) == Len(o) = 0

\* Python truthiness of the optional list / optional string arguments
TruthyList(o) == ~IsNone(o) /\ Len(o[1]) > 0
TruthyStr(o) == ~IsNone(o) /\ o[1] /= ""

SeqsUpTo(S, n) == UNION {[1..m -> S] : m \in 0..n}
Range(s) == {s[i] : i \in 1..Len(s)}

VARIABLES
    pc,                 \* "new", "hash", "skl", "failed", "ready", "done", "error"
    error,              \* message of the exception raised, "" when none
    config,             \* the index config: split_views, split_field, split_tags, hash_field
    fingerprint,        \* id -> what _hash_function returns for the sample's file
    emb,                \* id -> the sample's embedding (one dimension)
    tags,               \* id -> the sample's tag list
    fields,             \* id -> field name -> optional value
    saves,              \* id -> number of save() calls
    split_views,        \* the index attribute set by __init__
    hash2ids,           \* the insertion-ordered dict, as a sequence of [key, ids]
    leak_threshold,     \* LeakySplitsSKLIndex._leak_threshold
    cached_leaks_view,  \* LeakySplitsSKLIndex._cached_leaks_view
    backend,            \* the similarity backend: its index, its duplicates, call counts
    tag_calls,          \* tag -> completed tag_leaks(tag) calls
    ret,                \* the last value returned by leaks / leaks_by_sample
    usamples,           \* compute_uniqueness: the collection passed, a sequence of ids
    ufield,             \* compute_uniqueness: the uniqueness_field argument
    uvalid,             \* id -> "ok", "missing" or "notimage" (what _validate sees)
    ufail               \* compute_uniqueness: position whose save() raises, 0 when none

vars == <<pc, error, config, fingerprint, emb, tags, fields, saves, split_views,
          hash2ids, leak_threshold, cached_leaks_view, backend, tag_calls, ret,
          usamples, ufield, uvalid, ufail>>

datasetVars == <<fingerprint, emb, tags, fields, saves>>
sklVars == <<leak_threshold, cached_leaks_view, backend>>
uVars == <<usamples, ufield, uvalid, ufail>>

\* ------------------------------------------------------------------ views
TagView(t) == [kind |-> "tag", val |-> t]
FieldView(f, v) == [kind |-> "field", field |-> f, val |-> v]

\* the ids a lazy view yields over the collection
ViewIds(view) ==
    IF view.kind = "tag"
    THEN {i \in Ids : view.val \in Range(tags[i])}
    ELSE {i \in Ids : fields[i][view.field] = Some(view.val)}

\* samples.distinct(field): the distinct values, sorted
Distinct(field) ==
    SelectSeq(SplitValues, LAMBDA v : \E i \in Ids : fields[i][field] = Some(v))

Raise(msg) == [status |-> "error", msg |-> msg, val |-> None]
Return(v) == [status |-> "ok", msg |-> "", val |-> v]

FieldToViews(field) ==
    LET field_values == Distinct(field) IN
    IF Len(field_values) < 2
    THEN Raise("less than 2 distinct values")
    ELSE Return(Some([k \in 1..Len(field_values) |-> FieldView(field, field_values[k])]))

TagsToViews(tgs) ==
    IF Len(tgs) < 2
    THEN Raise("Must provide at least two tags.")
    ELSE Return(Some([k \in 1..Len(tgs) |-> TagView(tgs[k])]))

ArithmeticTrue(o) == IF IsNone(o) THEN 0 ELSE 1

\* _to_views without the check for more than one argument
ToViewsLenient(sv, sf, st) ==
    LET num_given == ArithmeticTrue(sv) + ArithmeticTrue(sf) + ArithmeticTrue(st) IN
    IF num_given = 0 THEN Raise("One of the split arguments must be given.")
    ELSE IF TruthyList(sv) THEN Return(sv)
    ELSE IF TruthyStr(sf) THEN FieldToViews(sf[1])
    ELSE IF TruthyList(st) THEN TagsToViews(st[1])
    ELSE Return(None)

ToViews(sv, sf, st) ==
    LET num_given == ArithmeticTrue(sv) + ArithmeticTrue(sf) + ArithmeticTrue(st) IN
    IF num_given = 0 THEN Raise("One of the split arguments must be given.")
    ELSE IF num_given > 1 THEN Raise("Only one of the split arguments must be given.")
    ELSE IF TruthyList(sv) THEN Return(sv)
    ELSE IF TruthyStr(sf) THEN FieldToViews(sf[1])
    ELSE IF TruthyList(st) THEN TagsToViews(st[1])
    ELSE Return(None)

\* ------------------------------------------------------------ hash index
FieldNames == {"split", "hash", "uniqueness", "score"}

\* str() of a non-negative integer, as its sequence of decimal digits
RECURSIVE Str(_)
Str(n) == IF n < 10 THEN <<n>> ELSE Str(n \div 10) \o <<n % 10>>

\* self._hash_function(s["filepath"]): the digest the configured method
\* (fou.compute_filehash or _image_hash) yields for the sample's file
HashFunction(i) == fingerprint[i]

Min(S) == CHOOSE x \in S : \A y \in S : x <= y

RECURSIVE SortedSeq(_)
SortedSeq(S) == IF S = {} THEN <<>> ELSE <<Min(S)>> \o SortedSeq(S \ {Min(S)})

\* self._hash2ids[hash].append(id) on a defaultdict(list)
Append2Bucket(h2i, key, id) ==
    IF \E k \in 1..Len(h2i) : h2i[k].key = key
    THEN [k \in 1..Len(h2i) |->
            IF h2i[k].key = key
            THEN [key |-> key, ids |-> Append(h2i[k].ids, id)]
            ELSE h2i[k]]
    ELSE Append(h2i, [key |-> key, ids |-> <<id>>])

\* the dict after the first n samples of iter_samples() have been hashed
RECURSIVE ComputeHashes(_)
ComputeHashes(n) ==
    IF n = 0 THEN <<>>
    ELSE Append2Bucket(ComputeHashes(n - 1), Str(HashFunction(n)), n)

\* dataset.select(ids, ordered): the view as the sequence of ids it yields
Select(ids, ordered) == IF ordered THEN ids ELSE SortedSeq(Range(ids))

\* leaks without the test on the bucket's size
RECURSIVE HashLeakIdsAll(_, _)
HashLeakIdsAll(h2i, k) ==
    IF k = 0 THEN <<>> ELSE HashLeakIdsAll(h2i, k - 1) \o h2i[k].ids

RECURSIVE HashLeakIds(_, _)
HashLeakIds(h2i, k) ==
    IF k = 0 THEN <<>>
    ELSE HashLeakIds(h2i, k - 1) \o (IF Len(h2i[k].ids) > 1 THEN h2i[k].ids ELSE <<>>)

\* LeakySplitsHashIndex.leaks
HashLeaksView(h2i) == Select(HashLeakIds(h2i, Len(h2i)), TRUE)

\* LeakySplitsHashIndex.leaks_by_sample: the first bucket holding id, else None
HashLeaksBySample(h2i, id) ==
    IF \E k \in 1..Len(h2i) : id \in Range(h2i[k].ids)
    THEN LET k == Min({j \in 1..Len(h2i) : id \in Range(h2i[j].ids)})
         IN Some(Select(h2i[k].ids, FALSE))
    ELSE None

NoRet == [op |-> "none", arg |-> 0, val |-> None]

\* LeakySplitsHashIndex.__init__
HashIndexInit ==
    /\ pc = "new"
    /\ LET r == ToViews(config.split_views, config.split_field, config.split_tags)
           wr == TruthyStr(config.hash_field)
       IN IF r.status = "error"
          THEN /\ pc' = "failed"
               /\ error' = r.msg
               /\ UNCHANGED <<split_views, hash2ids, fields, saves>>
          ELSE /\ pc' = "hash"
               /\ error' = ""
               /\ split_views' = r.val
               /\ hash2ids' = ComputeHashes(NumSamples)
               /\ fields' = [i \in Ids |->
                    IF wr
                    THEN [fields[i] EXCEPT ![config.hash_field[1]] = Some(Str(HashFunction(i)))]
                    ELSE fields[i]]
               /\ saves' = [i \in Ids |-> IF wr THEN saves[i] + 1 ELSE saves[i]]
    /\ UNCHANGED <<config, fingerprint, emb, tags, tag_calls, ret>>
    /\ UNCHANGED <<sklVars, uVars>>

\* reading the leaks property of a hash index
HashLeaks ==
    /\ pc = "hash"
    /\ ret' = [op |-> "leaks", arg |-> 0, val |-> Some(HashLeaksView(hash2ids))]
    /\ UNCHANGED <<pc, error, config, split_views, hash2ids, tag_calls>>
    /\ UNCHANGED <<datasetVars, sklVars, uVars>>

\* leaks_by_sample(x), x a sample of the collection or an id unknown to it
LeaksBySample ==
    /\ pc = "hash"
    /\ \E x \in Ids \cup {NumSamples + 1} :
          ret' = [op |-> "leaks_by_sample", arg |-> x, val |-> HashLeaksBySample(hash2ids, x)]
    /\ UNCHANGED <<pc, error, config, split_views, hash2ids, tag_calls>>
    /\ UNCHANGED <<datasetVars, sklVars, uVars>>

\* ------------------------------------------------------ similarity index
\* truth value of a view: DatasetView defines __len__ as count(), so a view
\* without samples is false, as None is
TruthyView(o) == ~IsNone(o) /\ Len(o[1]) > 0

Abs(x) == IF x < 0 THEN -x ELSE x

NoCalls == [compute_embeddings |-> 0, add_to_index |-> 0,
            find_duplicates |-> 0, duplicates_view |-> 0]

NewBackend == [index |-> {}, dups |-> {}, calls |-> NoCalls]

\* the backend's operations, as the similarity backend's contract states them
BackendComputeEmbeddings(be) ==
    [be EXCEPT !.calls.compute_embeddings = @ + 1]

BackendAddToIndex(be, sample_ids) ==
    [be EXCEPT !.index = @ \cup sample_ids, !.calls.add_to_index = @ + 1]

BackendFindDuplicates(be, thresh) ==
    [be EXCEPT !.dups = {i \in be.index :
                            \E j \in be.index \ {i} : Abs(emb[i] - emb[j]) <= thresh},
               !.calls.find_duplicates = @ + 1]

BackendDuplicatesView(be) ==
    [be EXCEPT !.calls.duplicates_view = @ + 1]

\* LeakySplitsSKLIndex.leaks: the view returned, and the cache and the backend
\* the access leaves behind
SKLLeaksAccess(cache, be, thresh) ==
    IF TruthyView(cache)
    THEN [view |-> cache[1], cache |-> cache, backend |-> be]
    ELSE LET b1 == BackendComputeEmbeddings(be)
             b2 == BackendAddToIndex(b1, Ids)
             b3 == BackendFindDuplicates(b2, thresh)
             b4 == BackendDuplicatesView(b3)
             view == SortedSeq(b3.dups)
         IN [view |-> view, cache |-> Some(view), backend |-> b4]

\* an access that runs the pipeline is possible while the run budget lasts
CanAccessSKLLeaks ==
    TruthyView(cached_leaks_view) \/ backend.calls.compute_embeddings < MaxPipelineRuns

\* LeakySplitsSKLIndex.__init__
SKLIndexInit ==
    /\ pc = "new"
    /\ LET r == ToViews(config.split_views, config.split_field, config.split_tags)
       IN IF r.status = "error"
          THEN /\ pc' = "failed"
               /\ error' = r.msg
               /\ UNCHANGED <<split_views, leak_threshold, cached_leaks_view>>
          ELSE /\ pc' = "skl"
               /\ error' = ""
               /\ split_views' = r.val
               /\ leak_threshold' = DefaultLeakThreshold
               /\ cached_leaks_view' = None
    /\ UNCHANGED <<config, hash2ids, backend, tag_calls, ret>>
    /\ UNCHANGED <<datasetVars, uVars>>

\* LeakySplitsSKLIndex.set_threshold
SetThreshold ==
    /\ pc = "skl"
    /\ \E t \in 0..MaxThreshold : leak_threshold' = t
    /\ UNCHANGED <<pc, error, config, split_views, hash2ids, cached_leaks_view,
                   backend, tag_calls, ret>>
    /\ UNCHANGED <<datasetVars, uVars>>

\* reading the leaks property of a similarity index
SKLLeaks ==
    /\ pc = "skl"
    /\ CanAccessSKLLeaks
    /\ LET a == SKLLeaksAccess(cached_leaks_view, backend, leak_threshold)
       IN /\ cached_leaks_view' = a.cache
          /\ backend' = a.backend
          /\ ret' = [op |-> "leaks", arg |-> 0, val |-> Some(a.view)]
    /\ UNCHANGED <<pc, error, config, split_views, hash2ids, leak_threshold, tag_calls>>
    /\ UNCHANGED <<datasetVars, uVars>>

\* ---------------------------------------------------------------- tagging
\* LeakySplitIndexInterface.tag_leaks, inherited by both indexes: every
\* sample the leaks view yields gets the tag appended and is saved
TagLeaks ==
    /\ pc \in {"hash", "skl"}
    /\ pc = "skl" => CanAccessSKLLeaks
    /\ \E tag \in LeakTagArgs :
        /\ tag_calls[tag] < MaxTagCalls
        /\ LET a == SKLLeaksAccess(cached_leaks_view, backend, leak_threshold)
               view == IF pc = "hash" THEN HashLeaksView(hash2ids) ELSE a.view
           IN /\ tags' = [i \in Ids |->
                    IF i \in Range(view) THEN Append(tags[i], tag) ELSE tags[i]]
              /\ saves' = [i \in Ids |->
                    IF i \in Range(view) THEN saves[i] + 1 ELSE saves[i]]
              /\ cached_leaks_view' = IF pc = "skl" THEN a.cache ELSE cached_leaks_view
              /\ backend' = IF pc = "skl" THEN a.backend ELSE backend
        /\ tag_calls' = [tag_calls EXCEPT ![tag] = @ + 1]
    /\ UNCHANGED <<pc, error, config, split_views, hash2ids, leak_threshold, ret>>
    /\ UNCHANGED <<fingerprint, emb, fields, uVars>>

\* ------------------------------------------------------------- uniqueness
UIds == 1..MaxUSamples
UFieldArgs == {"uniqueness", "score"}

\* weights = [0.6, 0.3, 0.1], in tenths
Weights == <<6, 3, 1>>

RECURSIVE Insert(_, _)
Insert(s, x) ==
    IF Len(s) = 0 THEN <<x>>
    ELSE IF x <= Head(s) THEN <<x>> \o s
    ELSE <<Head(s)>> \o Insert(Tail(s), x)

RECURSIVE SortAsc(_)
SortAsc(s) == IF Len(s) = 0 THEN <<>> ELSE Insert(SortAsc(Tail(s)), Head(s))

\* _validate over the samples in order: the first sample whose file is
\* missing or is no image raises
ValidateAll(samples) ==
    LET bad == {p \in 1..Len(samples) : uvalid[samples[p]] /= "ok"} IN
    IF bad = {} THEN Return(None)
    ELSE IF uvalid[samples[Min(bad)]] = "missing"
         THEN Raise("source media does not exist on disk")
         ELSE Raise("source media is not a recognized image format")

\* _compute_embeddings: one row per sample, in the collection's order
ComputeEmbeddings(samples) == [p \in 1..Len(samples) |-> emb[samples[p]]]

\* row p of kneighbors(embeddings): the K + 1 smallest distances from row p
\* to the fitted rows, itself included, ascending
KNeighbors(embeddings, p) ==
    SubSeq(SortAsc([q \in 1..Len(embeddings) |-> Abs(embeddings[p] - embeddings[q])]),
           1, K + 1)

RECURSIVE WeightedSum(_, _)
WeightedSum(dists, k) ==
    IF k = 0 THEN 0 ELSE WeightedSum(dists, k - 1) + dists[k + 1] * Weights[k]

Max(S) == CHOOSE x \in S : \A y \in S : x >= y

\* _compute_uniqueness: the normalised score of row p is num / den, where num
\* is 10 * K times the weighted mean of the row and den that of the largest
\* row (den = 0 is the NaN numpy yields for 0 / 0)
ComputeUniquenessScores(embeddings) ==
    IF Len(embeddings) < K + 1
    THEN Raise("Expected n_neighbors <= n_samples")
    ELSE LET sample_dists == [p \in 1..Len(embeddings) |->
                                WeightedSum(KNeighbors(embeddings, p), K)]
             mx == Max(Range(sample_dists))
         IN Return(Some([p \in 1..Len(embeddings) |-> [num |-> sample_dists[p], den |-> mx]]))

\* the write-back loop pairing each sample with the score of the next one
WriteBackShifted(flds, samples, uniqueness, field, stop) ==
    LET n == IF Len(samples) < Len(uniqueness) THEN Len(samples) ELSE Len(uniqueness)
        last == IF stop = 0 THEN n ELSE stop - 1
        pos(i) == Min({p \in 1..n : samples[p] = i})
    IN [i \in DOMAIN flds |->
          IF \E p \in 1..last : samples[p] = i
          THEN [flds[i] EXCEPT ![field] = Some(uniqueness[(pos(i) % n) + 1])]
          ELSE flds[i]]

\* the write-back loop over zip(samples, uniqueness), stopped at position
\* stop when that sample's save() raises (stop = 0: no save raises)
WriteBack(flds, samples, uniqueness, field, stop) ==
    LET n == IF Len(samples) < Len(uniqueness) THEN Len(samples) ELSE Len(uniqueness)
        last == IF stop = 0 THEN n ELSE stop - 1
        pos(i) == Min({p \in 1..n : samples[p] = i})
    IN [i \in DOMAIN flds |->
          IF \E p \in 1..last : samples[p] = i
          THEN [flds[i] EXCEPT ![field] = Some(uniqueness[pos(i)])]
          ELSE flds[i]]

SavesAfter(svs, samples, uniqueness, stop) ==
    LET n == IF Len(samples) < Len(uniqueness) THEN Len(samples) ELSE Len(uniqueness)
        last == IF stop = 0 THEN n ELSE stop - 1
    IN [i \in DOMAIN svs |-> svs[i] + Cardinality({p \in 1..last : samples[p] = i})]

\* compute_uniqueness(samples, uniqueness_field), roi_field left at None
ComputeUniqueness ==
    /\ pc = "ready"
    /\ LET v == ValidateAll(usamples)
           u == ComputeUniquenessScores(ComputeEmbeddings(usamples))
       IN IF v.status = "error"
          THEN /\ pc' = "error"
               /\ error' = v.msg
               /\ UNCHANGED <<fields, saves>>
          ELSE IF u.status = "error"
          THEN /\ pc' = "error"
               /\ error' = u.msg
               /\ UNCHANGED <<fields, saves>>
          ELSE /\ pc' = IF ufail = 0 THEN "done" ELSE "error"
               /\ error' = IF ufail = 0 THEN "" ELSE "save failed"
               /\ fields' = WriteBack(fields, usamples, u.val[1], ufield, ufail)
               /\ saves' = SavesAfter(saves, usamples, u.val[1], ufail)
    /\ UNCHANGED <<config, fingerprint, emb, tags, split_views, hash2ids, tag_calls, ret>>
    /\ UNCHANGED <<sklVars, uVars>>

\* --------------------------------------------------------- specifications
NoFields(split) == [f \in FieldNames |-> IF f = "split" THEN Some(split) ELSE None]

ViewPool == {TagView(t) : t \in SplitNames}

ViewsArgs == {None} \cup {Some(s) : s \in SeqsUpTo(ViewPool, MaxViews)}
FieldArgs == {None, Some(""), Some("split")}
TagsArgs == {None} \cup {Some(s) : s \in SeqsUpTo(SplitNames, MaxTags)}

MkConfig(sv, sf, st, hf) ==
    [split_views |-> sv, split_field |-> sf, split_tags |-> st, hash_field |-> hf]

\* configurations under which an index gets built: one per split mode, and
\* one that also writes the fingerprints to a field
ValidConfigs ==
    {MkConfig(Some(<<TagView("train"), TagView("test")>>), None, None, None),
     MkConfig(None, Some("split"), None, None),
     MkConfig(None, None, Some(<<"train", "test">>), None),
     MkConfig(None, None, Some(<<"train", "test">>), Some("hash"))}

\* nothing has been built or called yet
InitIdle ==
    /\ error = ""
    /\ split_views = None
    /\ hash2ids = <<>>
    /\ leak_threshold = 0
    /\ cached_leaks_view = None
    /\ backend = NewBackend
    /\ tag_calls = [t \in LeakTagArgs |-> 0]
    /\ ret = NoRet

NoUniqueness ==
    /\ usamples = <<>>
    /\ ufield = "uniqueness"
    /\ uvalid = [i \in Ids |-> "ok"]
    /\ ufail = 0

\* the first m samples are tagged / field-valued "train", the others "test"
SplitAt(m) == [i \in Ids |-> IF i <= m THEN "train" ELSE "test"]

InitDataset(sp) ==
    /\ tags = [i \in Ids |-> <<sp[i]>>]
    /\ fields = [i \in Ids |-> NoFields(sp[i])]
    /\ saves = [i \in Ids |-> 0]

\* split resolution: any combination of the three split arguments
InitResolve ==
    /\ pc = "new"
    /\ \E sv \in ViewsArgs, sf \in FieldArgs, st \in TagsArgs :
          config = MkConfig(sv, sf, st, None)
    /\ \E m \in 0..NumSamples : InitDataset(SplitAt(m))
    /\ fingerprint = [i \in Ids |-> 1]
    /\ emb = [i \in Ids |-> 0]
    /\ InitIdle
    /\ NoUniqueness

NextResolve == HashIndexInit \/ SKLIndexInit

SpecResolve == InitResolve /\ [][NextResolve]_vars

\* the hash index over any assignment of fingerprints to the samples
InitHash ==
    /\ pc = "new"
    /\ config \in ValidConfigs
    /\ fingerprint \in [Ids -> 1..NumHashes]
    /\ \E m \in 0..NumSamples : InitDataset(SplitAt(m))
    /\ emb = [i \in Ids |-> 0]
    /\ InitIdle
    /\ NoUniqueness

NextHash == HashIndexInit \/ HashLeaks \/ LeaksBySample \/ TagLeaks

SpecHash == InitHash /\ [][NextHash]_vars

\* the similarity index over any assignment of embeddings to the samples
InitSKL ==
    /\ pc = "new"
    /\ config = MkConfig(None, None, Some(<<"train", "test">>), None)
    /\ emb \in [Ids -> 0..MaxEmb]
    /\ \E m \in 0..NumSamples : InitDataset(SplitAt(m))
    /\ fingerprint = [i \in Ids |-> 1]
    /\ InitIdle
    /\ NoUniqueness

NextSKL == SKLIndexInit \/ SetThreshold \/ SKLLeaks \/ TagLeaks

SpecSKL == InitSKL /\ [][NextSKL]_vars

\* compute_uniqueness over the first n samples of a dataset, at most one of
\* them failing _validate, and at most one save() raising
InitUniq ==
    /\ pc = "ready"
    /\ config = MkConfig(None, None, None, None)
    /\ \E n \in 0..MaxUSamples :
        /\ usamples = [p \in 1..n |-> p]
        /\ emb \in [UIds -> 0..MaxUEmb]
        /\ \A i \in UIds : i > n => emb[i] = 0
        /\ \E b \in 0..n, kind \in {"missing", "notimage"} :
              uvalid = [i \in UIds |-> IF i = b THEN kind ELSE "ok"]
        /\ ufail \in 0..n
    /\ ufield \in UFieldArgs
    /\ tags = [i \in UIds |-> <<>>]
    /\ fields = [i \in UIds |-> NoFields("test")]
    /\ saves = [i \in UIds |-> 0]
    /\ fingerprint = [i \in UIds |-> 1]
    /\ InitIdle

NextUniq == ComputeUniqueness

SpecUniq == InitUniq /\ [][NextUniq]_vars

\* ------------------------------------------------------------ properties
NumGiven ==
    Cardinality({a \in {"split_views", "split_field", "split_tags"} : ~IsNone(config[a])})

Constructed == pc \in {"hash", "skl"}

\* C1: constructing either index fails with the split-argument error exactly
\* when zero or more than one of split_views, split_field and split_tags is
\* not None: "One of ..." for zero, "Only one of ..." for more than one, and
\* neither message when exactly one is given.
C1_SplitSpecifierCount ==
    pc /= "new" =>
        /\ NumGiven = 0 =>
              pc = "failed" /\ error = "One of the split arguments must be given."
        /\ NumGiven > 1 =>
              pc = "failed" /\ error = "Only one of the split arguments must be given."
        /\ NumGiven = 1 =>
              error \notin {"One of the split arguments must be given.",
                            "Only one of the split arguments must be given."}

C1_Witness ==
    /\ pc = "failed"
    /\ NumGiven = 2
    /\ error = "Only one of the split arguments must be given."

OnlyTagsGiven ==
    /\ IsNone(config.split_views)
    /\ IsNone(config.split_field)
    /\ ~IsNone(config.split_tags)

\* C2: in tag mode (only split_tags given) construction fails for every tag
\* list with fewer than two tags, the empty list included, and for two or
\* more tags resolves to one view per tag, in the order given.
C2_TagMode ==
    (pc /= "new" /\ OnlyTagsGiven) =>
        LET tgs == config.split_tags[1] IN
        IF Len(tgs) < 2
        THEN pc = "failed"
        ELSE /\ Constructed
             /\ split_views = Some([k \in 1..Len(tgs) |-> TagView(tgs[k])])

\* C3: every index whose construction completes holds a split_views list of
\* at least two views, whichever split mode was used.
C3_AtLeastTwoSplits ==
    Constructed => (~IsNone(split_views) /\ Len(split_views[1]) >= 2)

\* the samples sharing sample i's fingerprint, and the samples that share
\* theirs with another sample
Group(i) == {j \in Ids : fingerprint[j] = fingerprint[i]}
Leaked == {i \in Ids : Cardinality(Group(i)) >= 2}

\* C4: the ids the hash index's leaks returns are exactly the samples whose
\* fingerprint another sample shares, each once, grouped by fingerprint in the
\* order the fingerprints first occur in the collection, and in collection
\* order inside a group; a sample alone with its fingerprint never appears.
C4_HashLeaks ==
    (pc = "hash" /\ ret.op = "leaks") =>
        LET L == ret.val[1] IN
        /\ Range(L) = Leaked
        /\ Len(L) = Cardinality(Leaked)
        /\ \A p \in 1..Len(L), q \in 1..Len(L) :
              p < q =>
                \/ Min(Group(L[p])) < Min(Group(L[q]))
                \/ Group(L[p]) = Group(L[q]) /\ L[p] < L[q]

C4_Witness ==
    /\ pc = "hash"
    /\ ret.op = "leaks"
    /\ \E p \in 1..Len(ret.val[1]), q \in 1..Len(ret.val[1]) :
          p < q /\ ret.val[1][p] > ret.val[1][q]

\* C5: leaks_by_sample(x) on a hash index returns the whole bucket of x, x
\* included, when x shares its fingerprint with another sample, and nothing
\* (None or an empty view) when x is alone with its fingerprint or unknown.
C5_LeaksBySample ==
    (pc = "hash" /\ ret.op = "leaks_by_sample") =>
        LET x == ret.arg IN
        IF x \in Ids /\ Cardinality(Group(x)) >= 2
        THEN ~IsNone(ret.val) /\ Range(ret.val[1]) = Group(x)
        ELSE IsNone(ret.val) \/ Len(ret.val[1]) = 0

\* the resolved splits that hold a sample of S
SplitsSpanned(S) ==
    {k \in 1..Len(split_views[1]) : S \cap ViewIds(split_views[1][k]) /= {}}

\* C6: every sample leaks reports belongs to a duplicate group whose members
\* lie in more than one of the resolved splits.
C6_LeaksCrossSplits ==
    (pc = "hash" /\ ret.op = "leaks") =>
        \A i \in Range(ret.val[1]) : Cardinality(SplitsSpanned(Group(i))) > 1

\* C7: over any sequence of leaks accesses on a similarity index, each of
\* compute_embeddings, add_to_index, find_duplicates and duplicates_view is
\* called at most once.
C7_PipelineOnce ==
    pc = "skl" =>
        /\ backend.calls.compute_embeddings <= 1
        /\ backend.calls.add_to_index <= 1
        /\ backend.calls.find_duplicates <= 1
        /\ backend.calls.duplicates_view <= 1

\* C8: once a similarity index has cached the result of leaks, no later step
\* (set_threshold and a further leaks access included) changes the cached
\* view, the view an access returns, or the backend's index.
C8_ThresholdAfterCache ==
    [][(pc = "skl" /\ ~IsNone(cached_leaks_view)) =>
          /\ cached_leaks_view' = cached_leaks_view
          /\ backend'.index = backend.index
          /\ (ret' /= ret => ret'.val = cached_leaks_view)]_vars

Count(s, t) == Cardinality({k \in 1..Len(s) : s[k] = t})

\* C9: after one or more tag_leaks(tag) calls on a hash index, every leaked
\* sample carries the tag exactly once and no other sample carries it.
C9_TagLeaksIdempotent ==
    pc = "hash" =>
        \A t \in LeakTagArgs :
            tag_calls[t] >= 1 =>
                \A i \in Ids : Count(tags[i], t) = (IF i \in Leaked THEN 1 ELSE 0)

\* the scores compute_uniqueness derives from the collection's embeddings
ExpectedScores == ComputeUniquenessScores([p \in 1..Len(usamples) |-> emb[usamples[p]]])

====
